---- MODULE Spec2Model ----
(***************************************************************************)
(* Model of the mid-level PicoScope 6000E session object (class PS6000A,   *)
(* src/ps6000a/ps6000a.py), its exceptions (src/ps6000a/exceptions.py),    *)
(* its buffer records (src/ps6000a/buffers.py) and the driver boundary it  *)
(* calls (src/ps6000a/functions.py).                                       *)
(*                                                                         *)
(* Every public method is one action.  The driver's answers (status codes, *)
(* handles) are inputs of the action; the calls a method makes to the      *)
(* driver are recorded, in order, in `calls`, and the outcome of the       *)
(* method (exception or return value) in `last`.  The wrapper of block    *)
(* callbacks (src/ps6000a/callbacks.py) and the poll loop of a streaming  *)
(* caller (src/scripts/streaming_example.py) act on `env`.                 *)
(***************************************************************************)
EXTENDS Integers, Sequences, FiniteSets, TLC

VARIABLES
  raw_handle,   \* Optional[PicoHandle]: <<>> is None, <<h>> holds handle h
  last_status,  \* PicoStatus of the last verified driver call
  buffers,      \* defaultdict(set): BufferClass -> set of Buffer
  device,       \* the driver's own state (sessions open, async open)
  last,         \* the last method invoked, its arguments and its outcome
  calls,        \* the driver calls made by that method, in order
  env           \* the caller's side: callback objects and their trampolines,
                \* where each thread is inside set_data_buffers, and the
                \* poll loop of a streaming caller

vars == <<raw_handle, last_status, buffers, device, last, calls, env>>

-----------------------------------------------------------------------------
(* Bounds *)

MaxHandle == 2
MaxCallbacks == 2
MaxTrampolines == 3
MaxAcquisitions == 2
MaxStream == 4

-----------------------------------------------------------------------------
(* constants.py: PicoStatus *)

NOT_YET_RUN == -1
OK == 0
NOT_FOUND == 3
WAITING_FOR_DATA_BUFFERS == 407

\* The status codes the driver is taken to answer with.
DevStatuses == {OK, NOT_FOUND, WAITING_FOR_DATA_BUFFERS}

\* The handle values the driver can write: -1 failed, 0 none found, > 0 valid.
HandleValues == (-1)..MaxHandle

None == <<>>

-----------------------------------------------------------------------------
(* types.py: PicoHandle *)

\* A slip in valid: zero passes for a handle.
valid_nonnegative(h) == h >= 0

valid(h) == h > 0

-----------------------------------------------------------------------------
(* exceptions.py *)

NoException == [type |-> "none"]

PicoStatusError(status) ==
  IF status = OK
    THEN [type |-> "RuntimeError"]
    ELSE [type |-> "PicoStatusError", status |-> status]

PicoHandleError(h) ==
  IF h = None
    THEN [type |-> "PicoHandleError", handle |-> h, message |-> "never_opened"]
    ELSE IF h[1] < 0
      THEN [type |-> "PicoHandleError", handle |-> h, message |-> "open_failed"]
      ELSE IF h[1] = 0
        THEN [type |-> "PicoHandleError", handle |-> h, message |-> "no_device"]
        ELSE [type |-> "RuntimeError"]

Raised(r) == r.exc.type # "none"

-----------------------------------------------------------------------------
(* PS6000A: handle guard and status translator *)

\* `self.raw_handle is not None and self.raw_handle.valid`
handle_held(rh) == rh # None /\ valid(rh[1])

\* A slip in the handle property: any stored handle is returned.
handle_unchecked(rh) ==
  IF rh # None
    THEN [exc |-> NoException, ret |-> [handle |-> rh[1]]]
    ELSE [exc |-> PicoHandleError(rh), ret |-> None]

\* The handle property: the handle returned, or the exception raised.
handle(rh) ==
  IF handle_held(rh)
    THEN [exc |-> NoException, ret |-> [handle |-> rh[1]]]
    ELSE [exc |-> PicoHandleError(rh), ret |-> None]

\* A slip in _verify_status: the buffer-full code passes everywhere.
verify_status_lenient(status) ==
  [last_status |-> status,
   exc |-> IF status # OK /\ status # WAITING_FOR_DATA_BUFFERS
             THEN PicoStatusError(status) ELSE NoException]

\* _verify_status: records the status, then raises unless it is OK.
verify_status(status) ==
  [last_status |-> status,
   exc |-> IF status # OK THEN PicoStatusError(status) ELSE NoException]

\* One call across the driver boundary: the function, the handle passed
\* (0 when the function takes none), the handle the session object holds at
\* that moment, the status answered and the other values passed or answered.
Call(fn, h, held, status, data) ==
  [fn |-> fn, handle |-> h, held |-> held, status |-> status, data |-> data]

\* The outcome of a method: the fields of the object afterwards, the
\* exception raised (or none), the value returned and the driver calls made.
Outcome(rh, ls, bufs, exc, ret, cs) ==
  [raw_handle |-> rh, last_status |-> ls, buffers |-> bufs,
   exc |-> exc, ret |-> ret, calls |-> cs]

-----------------------------------------------------------------------------
(* The driver (functions.py): what it keeps and what it can answer *)

\* The class a ps6000aSetDataBuffers request is for.
DevClass(c) ==
  [channel |-> c.data.channel, datatype |-> c.data.data_type,
   segment |-> c.data.waveform]

\* The arrays whose addresses the driver was given and has not been told to
\* forget, after the request c was answered OK: CLEAR_ALL drops those of the
\* request's class, ADD records the arrays of the request.
DevRegistered(reg, c) ==
  LET kept == IF "CLEAR_ALL" \in c.data.action
                THEN {e \in reg : ~(e.handle = c.handle /\ e.class = DevClass(c))}
                ELSE reg
      given == {c.data.buffer_max[i] : i \in DOMAIN c.data.buffer_max}
                 \cup {c.data.buffer_min[i] : i \in DOMAIN c.data.buffer_min}
  IN  IF "ADD" \in c.data.action
        THEN kept \cup {[handle |-> c.handle, class |-> DevClass(c), array |-> a] :
                          a \in given}
        ELSE kept

\* The acquisitions in acq that are not of session h.
RECURSIVE NotOf(_, _)
NotOf(acq, h) ==
  IF acq = <<>> THEN <<>>
  ELSE IF Head(acq).handle = h THEN NotOf(Tail(acq), h)
  ELSE <<Head(acq)>> \o NotOf(Tail(acq), h)

\* The driver's streaming state when none runs.
NoStream ==
  [on |-> FALSE, handle |-> 0, array |-> 0, size |-> 0, written |-> 0,
   reported |-> 0, sent |-> 0]

\* The stream st ended: the count of the samples sent so far is kept.
StreamOff(st) == [NoStream EXCEPT !.sent = st.sent]

\* The array the driver streams into is full.
StreamFull(st) == st.array # 0 /\ st.written = st.size

\* The window without samples.
NoWindow == [start_index |-> 0, no_of_samples |-> 0]

\* The stream after a ps6000aSetDataBuffers request c answered OK: CLEAR_ALL
\* takes the array away from the driver, and buffers given with ADD to a
\* stream whose array is full or gone make it start on a buffer afresh.
DevRearmed(st, c) ==
  IF ~(st.on /\ st.handle = c.handle) THEN st
  ELSE
    LET cleared == IF "CLEAR_ALL" \in c.data.action
                     THEN [st EXCEPT !.array = 0, !.size = 0, !.written = 0,
                                     !.reported = 0]
                     ELSE st
    IN  IF "ADD" \in c.data.action /\ StreamFull(cleared)
          THEN [cleared EXCEPT !.array = 0, !.size = 0, !.written = 0,
                               !.reported = 0]
          ELSE cleared

\* The driver after one call.  A session is open from the moment an open
\* reports a valid handle with status OK until a close of it answers OK; an
\* asynchronous open runs in the background once it was started.  A session
\* is waiting for buffers from the poll answered WAITING_FOR_DATA_BUFFERS
\* until buffers are given to it again.  An acquisition is in `acquiring`
\* from the start request answered OK until a stop or a close of its session
\* answers OK, or, in block mode, until the driver has collected the block.
\* While a session streams, `stream` says which array the driver fills, how
\* many samples it has written into it and up to where it has reported them;
\* a poll reports the samples written since the last poll.
DevStep(dev, c) ==
  IF c.fn = "close_unit" /\ c.status = OK
    THEN [dev EXCEPT !.open = @ \ {c.handle},
                     !.registered = {e \in @ : e.handle # c.handle},
                     !.waiting = @ \ {c.handle},
                     !.acquiring = NotOf(@, c.handle),
                     !.stream = IF @.handle = c.handle THEN StreamOff(@)
                                ELSE @]
  ELSE IF c.fn = "run_block" /\ c.status = OK
    THEN [dev EXCEPT !.acquiring =
            Append(@, [handle |-> c.handle, mode |-> "block",
                       callback |-> c.data.cb_ready])]
  ELSE IF c.fn = "run_streaming" /\ c.status = OK
    THEN [dev EXCEPT !.acquiring =
            Append(@, [handle |-> c.handle, mode |-> "streaming",
                       callback |-> None]),
                     !.stream = [StreamOff(@) EXCEPT !.on = TRUE,
                                                     !.handle = c.handle]]
  ELSE IF c.fn = "stop" /\ c.status = OK
    THEN [dev EXCEPT !.acquiring = NotOf(@, c.handle),
                     !.stream = IF @.handle = c.handle THEN StreamOff(@)
                                ELSE @]
  ELSE IF c.fn = "set_data_buffers" /\ c.status = OK
    THEN [dev EXCEPT !.registered = DevRegistered(@, c),
                     !.waiting = IF "ADD" \in c.data.action
                                   THEN @ \ {c.handle} ELSE @,
                     !.stream = DevRearmed(@, c)]
  ELSE IF c.fn = "get_streaming_latest_values"
          /\ c.status \in {OK, WAITING_FOR_DATA_BUFFERS}
    THEN [dev EXCEPT !.waiting = IF c.status = WAITING_FOR_DATA_BUFFERS
                                   THEN @ \cup {c.handle} ELSE @,
                     !.stream = IF @.on /\ @.handle = c.handle
                                  THEN [@ EXCEPT !.reported = dev.stream.written]
                                  ELSE @]
  ELSE IF c.fn = "open_unit" /\ c.status = OK /\ valid(c.data.handle)
    THEN [dev EXCEPT !.open = @ \cup {c.data.handle}]
  ELSE IF c.fn = "open_unit_async" /\ c.status = OK /\ c.data.status2
    THEN [dev EXCEPT !.async = "pending"]
  ELSE IF c.fn = "open_unit_progress" /\ c.status = OK /\ c.data.complete
    THEN [dev EXCEPT !.async = "idle", !.async_handle = 0]
  ELSE dev

RECURSIVE DevApply(_, _)
DevApply(dev, cs) ==
  IF cs = <<>> THEN dev ELSE DevApply(DevStep(dev, Head(cs)), Tail(cs))

\* Whether the driver, in state dev, can give the answer recorded in c.
DevAnswers(dev, c) ==
  IF c.fn = "open_unit"
    THEN (c.status = OK /\ valid(c.data.handle)) => c.data.handle \notin dev.open
  ELSE IF c.fn = "open_unit_async"
    THEN c.data.status2 = (c.status = OK /\ dev.async = "idle")
  ELSE IF c.fn = "open_unit_progress"
    THEN IF c.status = OK /\ dev.async = "done"
           THEN c.data = [handle |-> dev.async_handle, complete |-> TRUE]
           ELSE c.data = [handle |-> 0, complete |-> FALSE]
  ELSE IF c.fn = "get_streaming_latest_values"
    THEN IF dev.stream.on /\ dev.stream.handle = c.handle
                /\ c.status \in {OK, WAITING_FOR_DATA_BUFFERS}
           THEN /\ (c.status = WAITING_FOR_DATA_BUFFERS)
                     = StreamFull(dev.stream)
                /\ c.data.window =
                     [start_index |-> dev.stream.reported,
                      no_of_samples |-> dev.stream.written
                                          - dev.stream.reported]
           ELSE c.data.window = NoWindow
  ELSE TRUE

RECURSIVE DevFeasible(_, _)
DevFeasible(dev, cs) ==
  IF cs = <<>>
    THEN TRUE
    ELSE /\ DevAnswers(dev, Head(cs))
         /\ DevFeasible(DevStep(dev, Head(cs)), Tail(cs))

-----------------------------------------------------------------------------
(* PS6000A: opening and closing *)

Unchanged(self) ==
  Outcome(self.raw_handle, self.last_status, self.buffers, NoException, None, <<>>)

\* A slip in close_unit: the handle is dropped before the status is verified.
close_unit_drops_first(self, st) ==
  LET h == handle(self.raw_handle) IN
  IF h.exc.type # "none"
    THEN Outcome(self.raw_handle, self.last_status, self.buffers, h.exc, None, <<>>)
    ELSE LET v == verify_status(st)
             c == Call("close_unit", h.ret.handle, self.raw_handle, st, <<>>)
         IN  Outcome(None, v.last_status, self.buffers, v.exc, None, <<c>>)

close_unit(self, st) ==
  LET h == handle(self.raw_handle) IN
  IF h.exc.type # "none"
    THEN Outcome(self.raw_handle, self.last_status, self.buffers, h.exc, None, <<>>)
    ELSE LET v == verify_status(st)
             c == Call("close_unit", h.ret.handle, self.raw_handle, st, <<>>)
         IN  IF v.exc.type # "none"
               THEN Outcome(self.raw_handle, v.last_status, self.buffers,
                            v.exc, None, <<c>>)
               ELSE Outcome(None, v.last_status, self.buffers,
                            NoException, None, <<c>>)

\* A slip in open_unit: the handle is stored before the status is verified.
open_unit_stores_first(self, close_st, st, h) ==
  LET closed == IF handle_held(self.raw_handle)
                  THEN close_unit(self, close_st)
                  ELSE Unchanged(self)
  IN  IF Raised(closed)
        THEN closed
        ELSE LET v == verify_status(st)
                 c == Call("open_unit", 0, closed.raw_handle, st, [handle |-> h])
             IN  Outcome(<<h>>, v.last_status, closed.buffers, v.exc,
                         IF v.exc.type # "none" THEN None ELSE [bool |-> valid(h)],
                         closed.calls \o <<c>>)

open_unit(self, close_st, st, h) ==
  LET closed == IF handle_held(self.raw_handle)
                  THEN close_unit(self, close_st)
                  ELSE Unchanged(self)
  IN  IF Raised(closed)
        THEN closed
        ELSE LET v == verify_status(st)
                 c == Call("open_unit", 0, closed.raw_handle, st, [handle |-> h])
             IN  IF v.exc.type # "none"
                   THEN Outcome(closed.raw_handle, v.last_status, closed.buffers,
                                v.exc, None, closed.calls \o <<c>>)
                   ELSE Outcome(<<h>>, v.last_status, closed.buffers,
                                NoException, [bool |-> valid(h)], closed.calls \o <<c>>)

open_unit_async(self, st, status2) ==
  LET v == verify_status(st)
      c == Call("open_unit_async", 0, self.raw_handle, st, [status2 |-> status2])
  IN  IF v.exc.type # "none"
        THEN Outcome(self.raw_handle, v.last_status, self.buffers,
                     v.exc, None, <<c>>)
        ELSE Outcome(self.raw_handle, v.last_status, self.buffers,
                     NoException, [bool |-> status2], <<c>>)

open_unit_progress(self, close_st, st, h, complete) ==
  LET closed == IF handle_held(self.raw_handle)
                  THEN close_unit(self, close_st)
                  ELSE Unchanged(self)
  IN  IF Raised(closed)
        THEN closed
        ELSE LET v == verify_status(st)
                 c == Call("open_unit_progress", 0, closed.raw_handle, st,
                           [handle |-> h, complete |-> complete])
             IN  IF v.exc.type # "none"
                   THEN Outcome(closed.raw_handle, v.last_status, closed.buffers,
                                v.exc, None, closed.calls \o <<c>>)
                   ELSE Outcome(IF complete THEN <<h>> ELSE closed.raw_handle,
                                v.last_status, closed.buffers, NoException,
                                [bool |-> complete /\ valid(h)], closed.calls \o <<c>>)

\* A static method: there is no self to record the status on.
enumerate_units(self, st) ==
  LET c == Call("enumerate_units", 0, self.raw_handle, st, <<>>)
  IN  IF st # OK
        THEN Outcome(self.raw_handle, self.last_status, self.buffers,
                     PicoStatusError(st), None, <<c>>)
        ELSE Outcome(self.raw_handle, self.last_status, self.buffers,
                     NoException, [units |-> "units"], <<c>>)

\* ping_unit and every method of the same shape: take the handle, make one
\* driver call with it, verify the status.
PassThroughOps == {"ping_unit", "get_unit_info"}

ping_unit(self, fn, st) ==
  LET h == handle(self.raw_handle) IN
  IF h.exc.type # "none"
    THEN Outcome(self.raw_handle, self.last_status, self.buffers, h.exc, None, <<>>)
    ELSE LET v == verify_status(st)
             c == Call(fn, h.ret.handle, self.raw_handle, st, <<>>)
         IN  Outcome(self.raw_handle, v.last_status, self.buffers,
                     v.exc, None, <<c>>)

-----------------------------------------------------------------------------
(* buffers.py and constants.py: buffers, their classes and their arrays *)

MaxArrays == 4
MaxSamples == 2
MaxSegment == 1
MaxRegistered == 3

Channels == {"CHANNEL_A", "CHANNEL_B"}
DataTypes == {"INT8_T", "INT16_T"}
Segments == 0..MaxSegment
RatioModes == {"RAW", "AGGREGATE"}
BufferMaxMin == {"MAX", "MIN"}

\* PicoAction flags, a flag set being the flags ORed together.
ADD == {"ADD"}
CLEAR_ALL == {"CLEAR_ALL"}

\* sizeof(data_type.ctype)
SizeOfCtype(data_type) == IF data_type = "INT8_T" THEN 1 ELSE 2

\* The ctypes arrays that can exist.  An array is known by its identity (its
\* address); its element type and its length are fixed when it is created.
Arrays == 1..MaxArrays
ArrayCtype(a) == IF a % 4 = 0 THEN "INT16_T" ELSE "INT8_T"
ArrayLen(a) == IF a % 4 = 3 THEN 2 ELSE 1
SizeOfArray(a) == ArrayLen(a) * SizeOfCtype(ArrayCtype(a))

BufferClass == [channel : Channels, datatype : DataTypes, segment : Segments]

Buffer == [buffer : Arrays, channel : Channels, datatype : DataTypes,
           segment : Segments, downsampling_mode : RatioModes,
           max_min : BufferMaxMin]

\* Buffer.buffer_class
buffer_class(b) ==
  [channel |-> b.channel, datatype |-> b.datatype, segment |-> b.segment]

\* Buffer.samples
samples(b) == ArrayLen(b.buffer)

\* Buffer.empty_streaming_info
empty_streaming_info(b) ==
  [channel |-> b.channel, mode |-> b.downsampling_mode, type |-> b.datatype]

\* Buffer.__eq__ (and __hash__) of the frozen dataclass: the array is declared
\* with compare=False, every other field is compared.
BufferEq(a, b) ==
  /\ a.channel = b.channel
  /\ a.datatype = b.datatype
  /\ a.segment = b.segment
  /\ a.downsampling_mode = b.downsampling_mode
  /\ a.max_min = b.max_min

\* `b in S` for a Python set S of Buffer
SetIn(S, b) == \E x \in S : BufferEq(x, b)

\* S.add(b): an element equal to b stays, b is not stored in its place
SetAdd(S, b) == IF SetIn(S, b) THEN S ELSE S \cup {b}

\* self.buffers[c] of the defaultdict: a missing key is created on access
Vivify(bufs, c) == IF c \in DOMAIN bufs THEN bufs ELSE bufs @@ (c :> {})

BufferSet(bufs, c) == IF c \in DOMAIN bufs THEN bufs[c] ELSE {}

\* total_existing_data_buffers
RECURSIVE SumLen(_, _)
SumLen(bufs, keys) ==
  IF keys = {} THEN 0
  ELSE LET k == CHOOSE x \in keys : TRUE
       IN  Cardinality(bufs[k]) + SumLen(bufs, keys \ {k})

total_existing_data_buffers(bufs) == SumLen(bufs, DOMAIN bufs)

-----------------------------------------------------------------------------
(* functions.py: set_data_buffers *)

\* The checks made before the driver is called, then the call.  buffer_max and
\* buffer_min are optional arrays; the result is the exception raised, or the
\* call made to ps6000aSetDataBuffers.
ll_set_data_buffers(h, held, channel, buffer_max, buffer_min, data_type, waveform, down_sample_ratio_mode, action, st) ==
  LET n_samples == IF buffer_max = None THEN 0 ELSE ArrayLen(buffer_max[1])
      c == Call("set_data_buffers", h, held, st,
                [channel |-> channel, buffer_max |-> buffer_max,
                 buffer_min |-> IF buffer_max = None THEN None ELSE buffer_min,
                 n_samples |-> n_samples, data_type |-> data_type,
                 waveform |-> waveform,
                 down_sample_ratio_mode |-> down_sample_ratio_mode,
                 action |-> action])
      TypeError == [exc |-> [type |-> "TypeError"], calls |-> <<>>]
      Called == [exc |-> NoException, calls |-> <<c>>]
  IN  IF buffer_min # None /\ buffer_max = None THEN TypeError
      ELSE IF buffer_max = None THEN Called
      ELSE IF SizeOfArray(buffer_max[1]) # n_samples * SizeOfCtype(data_type)
        THEN TypeError
      ELSE IF buffer_min = None THEN Called
      ELSE IF ArrayLen(buffer_max[1]) # ArrayLen(buffer_min[1]) THEN TypeError
      ELSE IF SizeOfArray(buffer_min[1]) # n_samples * SizeOfCtype(data_type)
        THEN TypeError
      ELSE Called

-----------------------------------------------------------------------------
(* PS6000A: the buffer registry *)

\* A slip in the registration: the min buffer is passed to the driver but
\* not kept.
Registered_without_min(bufs, buffer_max, buffer_min, clear_others) ==
  LET c == buffer_class(buffer_max)
      b0 == Vivify(bufs, c)
      b1 == IF clear_others THEN [b0 EXCEPT ![c] = {}] ELSE b0
  IN  [b1 EXCEPT ![c] = SetAdd(@, buffer_max)]

\* The registry after a successful registration of buffer_max (and buffer_min).
Registered(bufs, buffer_max, buffer_min, clear_others) ==
  LET c == buffer_class(buffer_max)
      b0 == Vivify(bufs, c)
      b1 == IF clear_others THEN [b0 EXCEPT ![c] = {}] ELSE b0
      b2 == [b1 EXCEPT ![c] = SetAdd(@, buffer_max)]
  IN  IF buffer_min # None
        THEN [b2 EXCEPT ![c] = SetAdd(@, buffer_min[1])]
        ELSE b2

\* A slip in the checks of the pair: the downsampling modes are not compared.
incompatible_class_only(buffer_max, buffer_min) ==
  buffer_min # None /\ buffer_class(buffer_min[1]) # buffer_class(buffer_max)

\* The checks of set_data_buffers on the pair: whether ValueError is raised.
incompatible(buffer_max, buffer_min) ==
  IF buffer_min # None /\ buffer_class(buffer_min[1]) # buffer_class(buffer_max)
    THEN TRUE
  ELSE IF buffer_min # None
          /\ buffer_min[1].downsampling_mode # buffer_max.downsampling_mode
    THEN TRUE
  ELSE FALSE

\* buffer_min is None (<<>>) or <<b>>.
set_data_buffers(self, buffer_max, buffer_min, clear_others, st) ==
  IF incompatible(buffer_max, buffer_min)
    THEN Outcome(self.raw_handle, self.last_status, self.buffers,
                 [type |-> "ValueError"], None, <<>>)
  ELSE
    LET h == handle(self.raw_handle)
        buffer_min_raw == IF buffer_min # None THEN <<buffer_min[1].buffer>>
                          ELSE None
    IN
    IF h.exc.type # "none"
      THEN Outcome(self.raw_handle, self.last_status, self.buffers, h.exc,
                   None, <<>>)
    ELSE
      LET action == IF clear_others THEN ADD \cup CLEAR_ALL ELSE ADD
          ll == ll_set_data_buffers(h.ret.handle, self.raw_handle,
                   buffer_max.channel, <<buffer_max.buffer>>, buffer_min_raw,
                   buffer_max.datatype, buffer_max.segment,
                   buffer_max.downsampling_mode, action, st)
      IN
      IF ll.exc.type # "none"
        THEN Outcome(self.raw_handle, self.last_status, self.buffers, ll.exc,
                     None, <<>>)
      ELSE
        LET v == verify_status(st) IN
        IF v.exc.type # "none"
          THEN Outcome(self.raw_handle, v.last_status, self.buffers, v.exc,
                       None, ll.calls)
          ELSE Outcome(self.raw_handle, v.last_status,
                       Registered(self.buffers, buffer_max, buffer_min,
                                  clear_others),
                       NoException, None, ll.calls)

\* The buffer is allocated by the method: a is the new array.
get_data_buffer(self, a, channel, data_type, segment, down_sample_ratio_mode, clear_others, st) ==
  LET buffer == [buffer |-> a, channel |-> channel, datatype |-> data_type,
                 segment |-> segment,
                 downsampling_mode |-> down_sample_ratio_mode,
                 max_min |-> "MAX"]
      r == set_data_buffers(self, buffer, None, clear_others, st)
  IN  IF Raised(r) THEN r ELSE [r EXCEPT !.ret = [buffer |-> buffer]]

get_data_buffers(self, a_max, a_min, channel, data_type, segment, down_sample_ratio_mode, clear_others, st) ==
  LET buffer_max == [buffer |-> a_max, channel |-> channel,
                     datatype |-> data_type, segment |-> segment,
                     downsampling_mode |-> down_sample_ratio_mode,
                     max_min |-> "MAX"]
      buffer_min == [buffer |-> a_min, channel |-> channel,
                     datatype |-> data_type, segment |-> segment,
                     downsampling_mode |-> down_sample_ratio_mode,
                     max_min |-> "MIN"]
      r == set_data_buffers(self, buffer_max, <<buffer_min>>, clear_others, st)
  IN  IF Raised(r) THEN r
      ELSE [r EXCEPT !.ret = [buffer_max |-> buffer_max, buffer_min |-> buffer_min]]

clear_data_buffers(self, channel, data_type, segment, st) ==
  LET h == handle(self.raw_handle) IN
  IF h.exc.type # "none"
    THEN Outcome(self.raw_handle, self.last_status, self.buffers, h.exc,
                 None, <<>>)
  ELSE
    LET ll == ll_set_data_buffers(h.ret.handle, self.raw_handle, channel, None,
                 None, data_type, segment, "RAW", CLEAR_ALL, st)
        v == verify_status(st)
        c == [channel |-> channel, datatype |-> data_type, segment |-> segment]
    IN
    IF ll.exc.type # "none"
      THEN Outcome(self.raw_handle, self.last_status, self.buffers, ll.exc,
                   None, <<>>)
    ELSE IF v.exc.type # "none"
      THEN Outcome(self.raw_handle, v.last_status, self.buffers, v.exc, None,
                   ll.calls)
      ELSE Outcome(self.raw_handle, v.last_status,
                   [Vivify(self.buffers, c) EXCEPT ![c] = {}],
                   NoException, None, ll.calls)

\* One pass of the inner loop of get_all_existing_data_buffers: the buffer is
\* added to out, then removed once for every given filter it fails; removing
\* an element that is no longer in the set raises KeyError.
filter_buffer(acc, b, channel, data_type, segment) ==
  LET rm(x, fails) ==
        IF x.err \/ ~fails THEN x
        ELSE IF SetIn(x.out, b)
          THEN [out |-> {y \in x.out : ~BufferEq(y, b)}, err |-> FALSE]
          ELSE [out |-> x.out, err |-> TRUE]
      s0 == [out |-> SetAdd(acc.out, b), err |-> acc.err]
      s1 == rm(s0, channel # None /\ b.channel # channel[1])
      s2 == rm(s1, data_type # None /\ b.datatype # data_type[1])
  IN  rm(s2, segment # None /\ b.segment # segment[1])

RECURSIVE filter_all(_, _, _, _, _)
filter_all(acc, todo, channel, data_type, segment) ==
  IF todo = {} \/ acc.err THEN acc
  ELSE LET b == CHOOSE x \in todo : TRUE
       IN  filter_all(filter_buffer(acc, b, channel, data_type, segment),
                      todo \ {b}, channel, data_type, segment)

\* The filters are None (<<>>) when omitted.
get_all_existing_data_buffers(bufs, channel, data_type, segment) ==
  LET all == UNION {bufs[k] : k \in DOMAIN bufs}
      r == filter_all([out |-> {}, err |-> FALSE], all, channel, data_type,
                      segment)
  IN  IF r.err THEN [exc |-> [type |-> "KeyError"], ret |-> {}]
      ELSE [exc |-> NoException, ret |-> r.out]

\* get_existing_data_buffers: self.buffers[buffer_class] of the defaultdict,
\* which creates the key when it is missing.
get_existing_data_buffers(self, channel, data_type, segment) ==
  LET c == [channel |-> channel, datatype |-> data_type, segment |-> segment]
      bufs == Vivify(self.buffers, c)
  IN  Outcome(self.raw_handle, self.last_status, bufs, NoException,
              [buffers |-> bufs[c]], <<>>)

\* The key get_existing_data_buffer_pairs groups a buffer under.
pair_key(b) ==
  [channel |-> b.channel, datatype |-> b.datatype, segment |-> b.segment,
   downsampling_mode |-> b.downsampling_mode]

\* The buffers of every class: the loops run over self.buffers.values().
all_buffers(bufs) == UNION {bufs[k] : k \in DOMAIN bufs}

\* What slot 0 of the lists in `pairs` can hold when the loops are done.  A
\* MAX buffer and a MIN buffer are both written to pairs[key][0], so for each
\* key it holds the buffer of that key the set yielded last; the order in
\* which a set yields its elements is not fixed by the program.
slot0_choices(bufs) ==
  {S \in SUBSET all_buffers(bufs) :
     \A b \in all_buffers(bufs) :
       Cardinality({x \in S : pair_key(x) = pair_key(b)}) = 1}

\* get_existing_data_buffer_pairs with slot0 what the loops left in slot 0:
\* channel, data_type and segment are not used, slot 1 is never written.
get_existing_data_buffer_pairs(self, channel, data_type, segment, slot0) ==
  Outcome(self.raw_handle, self.last_status, self.buffers, NoException,
          [pairs |-> {[buffer_max |-> <<b>>, buffer_min |-> None] : b \in slot0}],
          <<>>)

\* A slip in the loop of reload_data_buffers: after a status that is not OK
\* the exception is kept for the end and the remaining pairs are submitted.
RECURSIVE reload_pairs_goes_on(_, _, _, _, _, _)
reload_pairs_goes_on(acc, h, held, todo, n_ok, st_fail) ==
  IF todo = <<>> THEN acc
  ELSE
    LET pair == Head(todo)
        buffer_max == pair.buffer_max[1]
        st == IF n_ok > 0 THEN OK ELSE st_fail
        ll == ll_set_data_buffers(h, held, buffer_max.channel,
                 <<buffer_max.buffer>>, None, buffer_max.datatype,
                 buffer_max.segment, buffer_max.downsampling_mode, ADD, st)
        v == verify_status(st)
    IN  reload_pairs_goes_on(
          [acc EXCEPT !.exc = IF acc.exc.type # "none" THEN acc.exc ELSE v.exc,
                      !.last_status = v.last_status,
                      !.calls = @ \o ll.calls,
                      !.out = @ \cup {buffer_max}],
          h, held, Tail(todo), n_ok - 1, st_fail)

\* The loop of reload_data_buffers over the pairs still to do: the driver
\* answers the first n_ok calls with OK and the next with st_fail.
RECURSIVE reload_pairs(_, _, _, _, _, _)
reload_pairs(acc, h, held, todo, n_ok, st_fail) ==
  IF todo = <<>> \/ acc.exc.type # "none" THEN acc
  ELSE
    LET pair == Head(todo)
        buffer_max == pair.buffer_max[1]
        st == IF n_ok > 0 THEN OK ELSE st_fail
        ll == ll_set_data_buffers(h, held, buffer_max.channel,
                 <<buffer_max.buffer>>,
                 IF pair.buffer_min # None
                   THEN <<pair.buffer_min[1].buffer>> ELSE None,
                 buffer_max.datatype, buffer_max.segment,
                 buffer_max.downsampling_mode, ADD, st)
        v == verify_status(st)
        out == acc.out \cup {buffer_max}
                 \cup {pair.buffer_min[i] : i \in DOMAIN pair.buffer_min}
    IN
    IF ll.exc.type # "none"
      THEN [acc EXCEPT !.exc = ll.exc]
    ELSE IF v.exc.type # "none"
      THEN [acc EXCEPT !.exc = v.exc, !.last_status = v.last_status,
                       !.calls = @ \o ll.calls]
      ELSE reload_pairs([acc EXCEPT !.last_status = v.last_status,
                                    !.calls = @ \o ll.calls, !.out = out],
                        h, held, Tail(todo), n_ok - 1, st_fail)

\* A set in some order of iteration.
RECURSIVE SetToSeq(_)
SetToSeq(S) ==
  IF S = {} THEN <<>>
  ELSE LET x == CHOOSE y \in S : TRUE IN <<x>> \o SetToSeq(S \ {x})

reload_data_buffers(self, channel, data_type, segment, slot0, n_ok, st_fail) ==
  LET h == handle(self.raw_handle) IN
  IF h.exc.type # "none"
    THEN Outcome(self.raw_handle, self.last_status, self.buffers, h.exc,
                 None, <<>>)
  ELSE
    LET pairs == get_existing_data_buffer_pairs(self, channel, data_type,
                                                segment, slot0).ret.pairs
        r == reload_pairs([last_status |-> self.last_status,
                           exc |-> NoException, out |-> {}, calls |-> <<>>],
                          h.ret.handle, self.raw_handle, SetToSeq(pairs),
                          n_ok, st_fail)
    IN  Outcome(self.raw_handle, r.last_status, self.buffers, r.exc,
                IF r.exc.type # "none" THEN None ELSE [buffers |-> r.out],
                r.calls)

-----------------------------------------------------------------------------
(* PS6000A: the streaming poll *)

\* A slip in the poll: the buffer-full code raises like any other.
streaming_raises_strict(st) == st # OK

\* `status != OK and status != WAITING_FOR_DATA_BUFFERS`
streaming_raises(st) == st # OK /\ st # WAITING_FOR_DATA_BUFFERS

\* `full = status == WAITING_FOR_DATA_BUFFERS`
streaming_full(st) == st = WAITING_FOR_DATA_BUFFERS

\* A slip in the poll: the structures given to the driver are returned as
\* they were built, not the array the driver has filled.
Unfilled(info, w) ==
  [i \in DOMAIN info |->
     [channel |-> info[i].channel, mode |-> info[i].mode,
      type |-> info[i].type, start_index |-> 0, no_of_samples |-> 0]]

\* The structures of a poll after the driver has set start_index and
\* no_of_samples in each of them.
Filled(info, w) ==
  [i \in DOMAIN info |->
     [channel |-> info[i].channel, mode |-> info[i].mode,
      type |-> info[i].type, start_index |-> w.start_index,
      no_of_samples |-> w.no_of_samples]]

\* A slip in the poll: on the buffer-full code the first registered buffer
\* is given to the driver again.
get_streaming_latest_values_rearms(self, streaming_data_info, st, w) ==
  LET h == handle(self.raw_handle) IN
  IF h.exc.type # "none"
    THEN Outcome(self.raw_handle, self.last_status, self.buffers, h.exc,
                 None, <<>>)
  ELSE
    LET q == get_all_existing_data_buffers(self.buffers, None, None, <<0>>)
        info == IF streaming_data_info = None
                  THEN [i \in DOMAIN SetToSeq(q.ret) |->
                          empty_streaming_info(SetToSeq(q.ret)[i])]
                  ELSE streaming_data_info[1]
        c == Call("get_streaming_latest_values", h.ret.handle, self.raw_handle,
                  st, [streaming_data_info |-> info, window |-> w])
        again == IF streaming_full(st) /\ q.ret # {}
                   THEN LET b == SetToSeq(q.ret)[1]
                        IN  ll_set_data_buffers(h.ret.handle, self.raw_handle,
                              b.channel, <<b.buffer>>, None, b.datatype,
                              b.segment, b.downsampling_mode, ADD, OK).calls
                   ELSE <<>>
    IN
    IF streaming_data_info = None /\ q.exc.type # "none"
      THEN Outcome(self.raw_handle, self.last_status, self.buffers, q.exc,
                   None, <<>>)
    ELSE IF streaming_raises(st)
      THEN Outcome(self.raw_handle, st, self.buffers, PicoStatusError(st),
                   None, <<c>>)
      ELSE Outcome(self.raw_handle, st, self.buffers, NoException,
                   [full |-> streaming_full(st),
                    streaming_info_array |-> Filled(info, w)],
                   <<c>> \o again)

\* streaming_data_info is None (<<>>) or <<list>>.
get_streaming_latest_values(self, streaming_data_info, st, w) ==
  LET h == handle(self.raw_handle) IN
  IF h.exc.type # "none"
    THEN Outcome(self.raw_handle, self.last_status, self.buffers, h.exc,
                 None, <<>>)
  ELSE
    LET q == get_all_existing_data_buffers(self.buffers, None, None, <<0>>)
        info == IF streaming_data_info = None
                  THEN [i \in DOMAIN SetToSeq(q.ret) |->
                          empty_streaming_info(SetToSeq(q.ret)[i])]
                  ELSE streaming_data_info[1]
        c == Call("get_streaming_latest_values", h.ret.handle, self.raw_handle,
                  st, [streaming_data_info |-> info, window |-> w])
    IN
    IF streaming_data_info = None /\ q.exc.type # "none"
      THEN Outcome(self.raw_handle, self.last_status, self.buffers, q.exc,
                   None, <<>>)
    ELSE IF streaming_raises(st)
      THEN Outcome(self.raw_handle, st, self.buffers, PicoStatusError(st),
                   None, <<c>>)
      ELSE Outcome(self.raw_handle, st, self.buffers, NoException,
                   [full |-> streaming_full(st),
                    streaming_info_array |-> Filled(info, w)],
                   <<c>>)

-----------------------------------------------------------------------------
(* callbacks.py and PS6000A: starting and stopping acquisitions *)

\* The callback objects of the caller.
Callbacks == 1..MaxCallbacks

\* A slip in wrap_block_ready: the attribute is not looked up, every call
\* makes a new trampoline.
wrap_block_ready_anew(e, callback) ==
  LET out == Len(e.target) + 1
  IN  [env |-> [e EXCEPT !.target = Append(@, callback),
                         !.holder[callback] = <<out>>],
       out |-> out]

\* wrap_block_ready: e.holder[callback] is the attribute
\* __ps6000a_BlockReadyCType of the callback object (None when it has none,
\* else the trampoline stored), e.target[t] the callback that trampoline t
\* invokes.  The trampoline is referenced from that attribute only.
wrap_block_ready(e, callback) ==
  IF e.holder[callback] # None
    THEN [env |-> e, out |-> e.holder[callback][1]]
    ELSE LET out == Len(e.target) + 1
         IN  [env |-> [e EXCEPT !.target = Append(@, callback),
                                !.holder[callback] = <<out>>],
              out |-> out]

\* ready is None or <<callback>>.  Returns the outcome r and the caller's
\* side afterwards.
run_block(self, e, ready, st) ==
  LET h == handle(self.raw_handle) IN
  IF h.exc.type # "none"
    THEN [r |-> Outcome(self.raw_handle, self.last_status, self.buffers,
                        h.exc, None, <<>>),
          env |-> e]
  ELSE
    LET w == IF ready # None THEN wrap_block_ready(e, ready[1])
             ELSE [env |-> e, out |-> 0]
        callback == IF ready # None THEN <<w.out>> ELSE None
        c == Call("run_block", h.ret.handle, self.raw_handle, st,
                  [cb_ready |-> callback])
        v == verify_status(st)
    IN  [r |-> Outcome(self.raw_handle, v.last_status, self.buffers, v.exc,
                       IF v.exc.type = "none"
                         THEN [time_indisposed_ms |-> "ms"] ELSE None,
                       <<c>>),
         env |-> w.env]

run_streaming(self, st) ==
  LET h == handle(self.raw_handle) IN
  IF h.exc.type # "none"
    THEN Outcome(self.raw_handle, self.last_status, self.buffers, h.exc,
                 None, <<>>)
  ELSE
    LET c == Call("run_streaming", h.ret.handle, self.raw_handle, st,
                  [warned |-> total_existing_data_buffers(self.buffers) <= 0])
        v == verify_status(st)
    IN  Outcome(self.raw_handle, v.last_status, self.buffers, v.exc,
                IF v.exc.type = "none"
                  THEN [sample_interval |-> "s"] ELSE None,
                <<c>>)

stop(self, st) == ping_unit(self, "stop", st)

\* is_ready, get_values and no_of_streaming_values: the handle, one driver
\* call, the status verified.
AcquisitionOps == {"is_ready", "get_values", "no_of_streaming_values"}

-----------------------------------------------------------------------------
(* Actions *)

Self == [raw_handle |-> raw_handle, last_status |-> last_status,
         buffers |-> buffers]

\* Method op, called with args, ends with outcome r and leaves the caller's
\* side as e.
ApplyWith(op, args, r, e) ==
  /\ DevFeasible(device, r.calls)
  /\ raw_handle' = r.raw_handle
  /\ last_status' = r.last_status
  /\ buffers' = r.buffers
  /\ device' = DevApply(device, r.calls)
  /\ calls' = r.calls
  /\ last' = [op |-> op, args |-> args, exc |-> r.exc, ret |-> r.ret]
  /\ env' = e

\* Method op, called with args, ends with outcome r.
Apply(op, args, r) == ApplyWith(op, args, r, env)

Handle ==
  LET h == handle(raw_handle) IN
  Apply("handle", <<>>,
        Outcome(raw_handle, last_status, buffers, h.exc, h.ret, <<>>))

\* open_unit, the driver answering from the given statuses and handles.
OpenUnitAnswered(Statuses, Handles) ==
  \E close_st \in Statuses, st \in Statuses, h \in Handles :
    Apply("open_unit", <<>>, open_unit(Self, close_st, st, h))

OpenUnit == OpenUnitAnswered(DevStatuses, HandleValues)

OpenUnitAsync ==
  \E st \in DevStatuses, status2 \in BOOLEAN :
    Apply("open_unit_async", <<>>, open_unit_async(Self, st, status2))

OpenUnitProgress ==
  \E close_st \in DevStatuses, st \in DevStatuses, h \in HandleValues,
     complete \in BOOLEAN :
    Apply("open_unit_progress", <<>>,
          open_unit_progress(Self, close_st, st, h, complete))

CloseUnit ==
  \E st \in DevStatuses : Apply("close_unit", <<>>, close_unit(Self, st))

EnumerateUnits ==
  \E st \in DevStatuses : Apply("enumerate_units", <<>>, enumerate_units(Self, st))

PassThrough ==
  \E fn \in PassThroughOps, st \in DevStatuses :
    Apply(fn, <<>>, ping_unit(Self, fn, st))

\* The driver finishes an asynchronous open in the background: the scope is
\* opened (h > 0), none is found (0) or the open fails (-1).
DevOpenCompletes ==
  /\ device.async = "pending"
  /\ \E h \in HandleValues :
       /\ h \notin device.open
       /\ device' = [device EXCEPT !.async = "done", !.async_handle = h,
                                   !.open = IF valid(h) THEN @ \cup {h} ELSE @]
  /\ UNCHANGED <<raw_handle, last_status, buffers, last, calls, env>>

\* The arrays some registered buffer holds.
RegisteredArrays(bufs) == {b.buffer : b \in UNION {bufs[k] : k \in DOMAIN bufs}}

\* (data_type.ctype * n_samples)(): a new array of that type and length.
\* Arrays of one type and length differ by identity only: of those not held
\* in use the one with the least identity is taken.
NewArrays(held, data_type, n_samples) ==
  LET free == {a \in Arrays \ held :
                 ArrayCtype(a) = data_type /\ ArrayLen(a) = n_samples}
  IN  {a \in free : \A x \in free : a <= x}

\* The registry is kept within the bound of the model.
WithinBound(r) == total_existing_data_buffers(r.buffers) <= MaxRegistered

GetDataBuffer(Classes, Lengths, Modes) ==
  \E c \in Classes, n_samples \in Lengths, mode \in Modes,
     clear_others \in BOOLEAN, st \in DevStatuses :
    \E a \in NewArrays(RegisteredArrays(buffers), c.datatype, n_samples) :
      LET r == get_data_buffer(Self, a, c.channel, c.datatype, c.segment, mode,
                               clear_others, st)
      IN  /\ WithinBound(r)
          /\ Apply("get_data_buffer",
                   [channel |-> c.channel, n_samples |-> n_samples,
                    data_type |-> c.datatype, segment |-> c.segment,
                    down_sample_ratio_mode |-> mode,
                    clear_others |-> clear_others], r)

GetDataBuffers(Classes, Lengths, Modes) ==
  \E c \in Classes, n_samples \in Lengths, mode \in Modes,
     clear_others \in BOOLEAN, st \in DevStatuses :
    \E a_max \in NewArrays(RegisteredArrays(buffers), c.datatype, n_samples) :
      \E a_min \in NewArrays(RegisteredArrays(buffers) \cup {a_max},
                               c.datatype, n_samples) :
        LET r == get_data_buffers(Self, a_max, a_min, c.channel, c.datatype,
                                  c.segment, mode, clear_others, st)
        IN  /\ WithinBound(r)
            /\ Apply("get_data_buffers",
                     [channel |-> c.channel, n_samples |-> n_samples,
                      data_type |-> c.datatype, segment |-> c.segment,
                      down_sample_ratio_mode |-> mode,
                      clear_others |-> clear_others], r)

\* The caller passes Buffer objects of its own making: Pairs is a set of
\* <<buffer_max, buffer_min>>, buffer_min being None or <<b>>.
SetDataBuffers(Pairs) ==
  \E pair \in Pairs, clear_others \in BOOLEAN, st \in DevStatuses :
    LET r == set_data_buffers(Self, pair[1], pair[2], clear_others, st)
    IN  /\ WithinBound(r)
        /\ Apply("set_data_buffers",
                 [buffer_max |-> pair[1], buffer_min |-> pair[2],
                  clear_others |-> clear_others], r)

ClearDataBuffers(Classes) ==
  \E c \in Classes, st \in DevStatuses :
    Apply("clear_data_buffers", c,
          clear_data_buffers(Self, c.channel, c.datatype, c.segment, st))

GetExistingDataBuffers(Classes) ==
  \E c \in Classes :
    Apply("get_existing_data_buffers", c,
          get_existing_data_buffers(Self, c.channel, c.datatype, c.segment))

\* Each filter is omitted or taken from the attributes of one of the classes.
GetAllExistingDataBuffers(Classes) ==
  \E channel \in {None} \cup {<<c.channel>> : c \in Classes},
     data_type \in {None} \cup {<<c.datatype>> : c \in Classes},
     segment \in {None} \cup {<<c.segment>> : c \in Classes} :
    LET q == get_all_existing_data_buffers(buffers, channel, data_type, segment)
    IN  Apply("get_all_existing_data_buffers",
              [channel |-> channel, data_type |-> data_type,
               segment |-> segment],
              Outcome(raw_handle, last_status, buffers, q.exc,
                      IF q.exc.type # "none" THEN None
                      ELSE [buffers |-> q.ret], <<>>))

GetExistingDataBufferPairs(Classes) ==
  \E c \in Classes, slot0 \in slot0_choices(buffers) :
    Apply("get_existing_data_buffer_pairs", c,
          get_existing_data_buffer_pairs(Self, c.channel, c.datatype,
                                         c.segment, slot0))

ReloadDataBuffers(Classes) ==
  \E c \in Classes, slot0 \in slot0_choices(buffers),
     st_fail \in DevStatuses \ {OK} :
    \E n_ok \in 0..Cardinality(slot0) :
      Apply("reload_data_buffers", c,
            reload_data_buffers(Self, c.channel, c.datatype, c.segment,
                                slot0, n_ok, st_fail))

\* The poll with the entries derived from the registry.
\* The windows a poll can report.
Windows == [start_index : 0..MaxSamples, no_of_samples : 0..MaxSamples]

GetStreamingLatestValues ==
  \E st \in DevStatuses, w \in Windows :
    Apply("get_streaming_latest_values", None,
          get_streaming_latest_values(Self, None, st, w))

\* The driver writes the next sample of the stream, of at most n, into the
\* array it fills; when it fills none it first takes one of those it holds
\* for the session.
DevSampleUpTo(n) ==
  LET st == device.stream IN
  /\ st.on
  /\ st.sent < n
  /\ ~StreamFull(st)
  /\ \E e \in device.registered :
       /\ e.handle = st.handle
       /\ st.array # 0 => e.array = st.array
       /\ device' =
            [device EXCEPT
               !.stream = [st EXCEPT !.array = e.array,
                                     !.size = ArrayLen(e.array),
                                     !.written = @ + 1, !.sent = @ + 1],
               !.memory[e.array][st.written + 1] = st.sent + 1]
  /\ UNCHANGED <<raw_handle, last_status, buffers, last, calls, env>>

DevSample == DevSampleUpTo(MaxStream)

\* The acquisitions the driver has after the calls of outcome r are few.
FewAcquisitions(r) ==
  Len(DevApply(device, r.calls).acquiring) <= MaxAcquisitions

\* run_block with no callback or with one of the given callbacks that the
\* caller still holds.
RunBlockWith(Given) ==
  \E ready \in {None} \cup {<<cb>> : cb \in Given \cap env.refs},
     st \in DevStatuses :
    LET rb == run_block(Self, env, ready, st)
    IN  /\ Len(rb.env.target) <= MaxTrampolines
        /\ FewAcquisitions(rb.r)
        /\ ApplyWith("run_block", [ready |-> ready], rb.r, rb.env)

RunBlock == RunBlockWith(Callbacks)

RunStreaming ==
  \E st \in DevStatuses :
    LET r == run_streaming(Self, st)
    IN  /\ FewAcquisitions(r)
        /\ Apply("run_streaming", <<>>, r)

Stop ==
  \E st \in DevStatuses : Apply("stop", <<>>, stop(Self, st))

Acquisition ==
  \E fn \in AcquisitionOps, st \in DevStatuses :
    Apply(fn, <<>>, ping_unit(Self, fn, st))

\* The caller wraps a callback it holds itself.
WrapBlockReady ==
  \E cb \in env.refs :
    LET w == wrap_block_ready(env, cb)
    IN  /\ Len(w.env.target) <= MaxTrampolines
        /\ ApplyWith("wrap_block_ready", [callback |-> cb],
                     Outcome(raw_handle, last_status, buffers, NoException,
                             [trampoline |-> w.out], <<>>),
                     w.env)

\* A step of the caller or of the runtime that is no method of the object.
Aside(op, args, ret, e) ==
  /\ last' = [op |-> op, args |-> args, exc |-> NoException, ret |-> ret]
  /\ calls' = <<>>
  /\ env' = e
  /\ UNCHANGED <<raw_handle, last_status, buffers, device>>

\* The caller drops its last reference to a callback object.
DropCallback ==
  \E cb \in env.refs :
    Aside("del", [callback |-> cb], None, [env EXCEPT !.refs = @ \ {cb}])

\* The garbage collector frees a callback object no one holds, and with it
\* the trampoline stored in its attribute.
Collect ==
  \E cb \in env.alive \ env.refs :
    Aside("gc", [callback |-> cb], None, [env EXCEPT !.alive = @ \ {cb}])

\* The trampoline t is alive as long as the callback object holding it is.
TrampolineAlive(e, t) == e.target[t] \in e.alive

\* The driver has collected a block: the acquisition is over, and the driver
\* invokes the function pointer it was given, if any.  Invoking a pointer
\* whose trampoline was freed is undefined: the process crashes or the
\* callback still runs.
DevBlockReady ==
  \E i \in DOMAIN device.acquiring :
    LET a == device.acquiring[i]
        rest == [j \in 1..(Len(device.acquiring) - 1) |->
                   IF j < i THEN device.acquiring[j]
                   ELSE device.acquiring[j + 1]]
    IN  /\ a.mode = "block"
        /\ device' = [device EXCEPT !.acquiring = rest]
        /\ \E outcome \in {"called", "crashed"} :
             /\ outcome = "crashed" =>
                  (a.callback # None /\ ~TrampolineAlive(env, a.callback[1]))
             /\ last' = [op |-> "block_ready",
                         args |-> [cb_ready |-> a.callback],
                         exc |-> NoException,
                         ret |-> [outcome |-> IF a.callback = None
                                                THEN "none" ELSE outcome]]
        /\ calls' = <<>>
        /\ UNCHANGED <<raw_handle, last_status, buffers, env>>

\* The streaming caller starts the stream, `interval = ps.run_streaming(...)`,
\* and enters its poll loop.  An exception ends the script.
LoopStart ==
  /\ env.loop.pc = "idle"
  /\ \E st \in DevStatuses :
       LET r == run_streaming(Self, st)
       IN  /\ FewAcquisitions(r)
           /\ ApplyWith("run_streaming", <<>>, r,
                        [env EXCEPT !.loop.pc = IF r.exc.type = "none"
                                                  THEN "poll" ELSE "stopped"])

\* The poll of the streaming loop: `full, sdia, _ =
\* ps.get_streaming_latest_values()` and `sdi = sdia[0]`.  An exception ends
\* the loop.
LoopPoll ==
  /\ env.loop.pc = "poll"
  /\ \E st \in DevStatuses, w \in Windows :
       LET r == get_streaming_latest_values(Self, None, st, w)
           ok == r.exc.type = "none" /\ r.ret.streaming_info_array # <<>>
           sdi == r.ret.streaming_info_array[1]
       IN  ApplyWith("get_streaming_latest_values", None, r,
             [env EXCEPT !.loop =
                IF ok
                  THEN [@ EXCEPT !.pc = "copy",
                                 !.window = [start_index |-> sdi.start_index,
                                             no_of_samples |-> sdi.no_of_samples],
                                 !.full = r.ret.full]
                  ELSE [@ EXCEPT !.pc = "stopped"]])

\* The elements s[from + 1], ..., s[to] of s, as the slice s[from:to].
Slice(s, from, to) ==
  LET hi == IF to < Len(s) THEN to ELSE Len(s)
  IN  IF from >= hi THEN <<>> ELSE SubSeq(s, from + 1, hi)

\* A slip in the copy: the samples are taken from the start of the buffer,
\* `buf.buffer[0 : sa_count]`.
LoopCopy_from_start ==
  /\ env.loop.pc = "copy"
  /\ \E buf \in all_buffers(buffers) :
       LET w == env.loop.window
           trim_buffer == Slice(device.memory[buf.buffer], 0, w.no_of_samples)
       IN  Aside("copy", [window |-> w], None,
                 [env EXCEPT !.loop.result = @ \o trim_buffer,
                             !.loop.pc = IF env.loop.full THEN "rearm"
                                         ELSE "poll"])

\* The copy of the streaming loop: the window reported is copied out of the
\* buffer, `buf.buffer[sa_start : sa_start + sa_count]`.
LoopCopy ==
  /\ env.loop.pc = "copy"
  /\ \E buf \in all_buffers(buffers) :
       LET w == env.loop.window
           trim_buffer == Slice(device.memory[buf.buffer], w.start_index,
                                w.start_index + w.no_of_samples)
       IN  Aside("copy", [window |-> w], None,
                 [env EXCEPT !.loop.result = @ \o trim_buffer,
                             !.loop.pc = IF env.loop.full THEN "rearm"
                                         ELSE "poll"])

\* The re-registration of the streaming loop: `if full:
\* ps.set_data_buffers(buf)`.
LoopRearm ==
  /\ env.loop.pc = "rearm"
  /\ \E buf \in all_buffers(buffers), st \in DevStatuses :
       LET r == set_data_buffers(Self, buf, None, FALSE, st)
       IN  ApplyWith("set_data_buffers",
                     [buffer_max |-> buf, buffer_min |-> None,
                      clear_others |-> FALSE], r,
                     [env EXCEPT !.loop.pc = IF r.exc.type = "none"
                                               THEN "poll" ELSE "stopped"])

\* The caller's thread and the driver's thread that runs completion
\* callbacks.
Threads == {"caller", "driver"}

\* A thread that is not inside set_data_buffers.
Idle == [pc |-> "idle", buffer_max |-> None, clear_others |-> FALSE]

\* Thread t enters set_data_buffers(b, clear_others=...) and runs it up to
\* the return of the driver call and the verification of its status; the
\* driver call releases the interpreter lock, so another thread may run
\* before the registry is updated.  With Locked the caller serializes the
\* calls: a thread enters only when no other thread is inside.
ThreadCall(t, Locked, Given) ==
  /\ env.threads[t].pc = "idle"
  /\ Locked => \A u \in Threads : env.threads[u].pc = "idle"
  /\ \E b \in Given, clear_others \in BOOLEAN, st \in DevStatuses :
       LET h == handle(raw_handle)
           action == IF clear_others THEN ADD \cup CLEAR_ALL ELSE ADD
           ll == ll_set_data_buffers(
                   IF h.exc.type = "none" THEN h.ret.handle ELSE 0,
                   raw_handle, b.channel, <<b.buffer>>, None, b.datatype,
                   b.segment, b.downsampling_mode, action, st)
           v == verify_status(st)
           exc == IF h.exc.type # "none" THEN h.exc
                  ELSE IF ll.exc.type # "none" THEN ll.exc
                  ELSE v.exc
           cs == IF h.exc.type # "none" THEN <<>> ELSE ll.calls
       IN  /\ DevFeasible(device, cs)
           /\ device' = DevApply(device, cs)
           /\ calls' = cs
           /\ last_status' = IF cs = <<>> THEN last_status ELSE v.last_status
           /\ last' = [op |-> "set_data_buffers",
                       args |-> [buffer_max |-> b, buffer_min |-> None,
                                 clear_others |-> clear_others],
                       exc |-> exc, ret |-> None]
           /\ env' = IF exc.type # "none" THEN env
                     ELSE [env EXCEPT !.threads[t] =
                             [pc |-> "called", buffer_max |-> <<b>>,
                              clear_others |-> clear_others]]
           /\ UNCHANGED <<raw_handle, buffers>>

\* `self.buffers[buffer_class].clear()` of thread t.
ThreadClear(t) ==
  LET job == env.threads[t] IN
  /\ job.pc = "called"
  /\ job.clear_others
  /\ LET c == buffer_class(job.buffer_max[1])
     IN  buffers' = [Vivify(buffers, c) EXCEPT ![c] = {}]
  /\ env' = [env EXCEPT !.threads[t].pc = "cleared"]
  /\ UNCHANGED <<raw_handle, last_status, device, last, calls>>

\* `self.buffers[buffer_class].add(buffer_max)` of thread t, after which
\* its call returns.
ThreadAdd(t) ==
  LET job == env.threads[t] IN
  /\ \/ job.pc = "cleared"
     \/ job.pc = "called" /\ ~job.clear_others
  /\ LET c == buffer_class(job.buffer_max[1])
     IN  buffers' = [Vivify(buffers, c) EXCEPT
                       ![c] = SetAdd(@, job.buffer_max[1])]
  /\ env' = [env EXCEPT !.threads[t] = Idle]
  /\ UNCHANGED <<raw_handle, last_status, device, last, calls>>

Init ==
  /\ raw_handle = None
  /\ last_status = NOT_YET_RUN
  /\ buffers = <<>>
  /\ device = [open |-> {}, async |-> "idle", async_handle |-> 0,
               registered |-> {}, waiting |-> {}, acquiring |-> <<>>,
               stream |-> NoStream,
               memory |-> [a \in Arrays |-> [i \in 1..ArrayLen(a) |-> 0]]]
  /\ last = [op |-> "__init__", args |-> <<>>, exc |-> NoException, ret |-> None]
  /\ calls = <<>>
  /\ env = [refs |-> Callbacks, alive |-> Callbacks,
            holder |-> [cb \in Callbacks |-> None], target |-> <<>>,
            threads |-> [t \in Threads |-> Idle],
            loop |-> [pc |-> "idle", window |-> NoWindow, full |-> FALSE,
                      result |-> <<>>]]

\* The class every other class of the model differs from in one attribute.
BaseClass == [channel |-> "CHANNEL_A", datatype |-> "INT8_T", segment |-> 0]

Next ==
  \/ Handle
  \/ OpenUnit
  \/ OpenUnitAsync
  \/ OpenUnitProgress
  \/ CloseUnit
  \/ EnumerateUnits
  \/ PassThrough
  \/ DevOpenCompletes
  \/ GetDataBuffer({BaseClass}, {1}, {"RAW"})
  \/ ClearDataBuffers({BaseClass})
  \/ GetStreamingLatestValues

Spec == Init /\ [][Next]_vars

-----------------------------------------------------------------------------
(* The registry under registrations by the caller *)

OtherChannel == [BaseClass EXCEPT !.channel = "CHANNEL_B"]
OtherDataType == [BaseClass EXCEPT !.datatype = "INT16_T"]
OtherSegment == [BaseClass EXCEPT !.segment = 1]

\* The Buffer objects the caller builds itself: as max buffer a MAX buffer of
\* the base class on array 1, as min buffer a MIN buffer on another array,
\* of the base class or of a class that differs from it in one attribute.
UserMaxes ==
  {b \in Buffer :
     buffer_class(b) = BaseClass /\ b.buffer = 1 /\ b.max_min = "MAX"}

UserMins ==
  {b \in Buffer :
     /\ b.max_min = "MIN"
     /\ \/ buffer_class(b) = BaseClass /\ b.buffer \in {2, 3, 4}
        \/ buffer_class(b) \in {OtherChannel, OtherDataType, OtherSegment}
             /\ b.buffer = 2}

UserPairs ==
  {<<b, None>> : b \in UserMaxes}
    \cup {<<b, <<m>>>> : b \in UserMaxes, m \in UserMins}

\* The pairs set_data_buffers itself accepts, with those whose lengths agree.
AgreeingPairs ==
  {p \in UserPairs :
     \/ p[2] = None
     \/ /\ ~incompatible(p[1], p[2])
        /\ samples(p[1]) = samples(p[2][1])}

\* Registrations of every kind of pair, on a registry of one class.
NextPairs ==
  \/ OpenUnitAnswered({OK}, {1})
  \/ SetDataBuffers(UserPairs)
  \/ ClearDataBuffers({BaseClass})

\* A class that differs from the base class in two attributes.
OtherChannelDataType ==
  [BaseClass EXCEPT !.channel = "CHANNEL_B", !.datatype = "INT16_T"]

\* Allocations of one and of two lengths, queries, reload and close.
NextBuf ==
  \/ OpenUnitAnswered({OK}, {1})
  \/ CloseUnit
  \/ GetDataBuffer({BaseClass}, {1, 2}, {"RAW"})
  \/ GetDataBuffer({OtherChannelDataType}, {1}, {"RAW"})
  \/ GetDataBuffers({BaseClass}, {1}, {"RAW"})
  \/ ClearDataBuffers({BaseClass})
  \/ GetExistingDataBuffers({BaseClass, OtherChannel})
  \/ GetAllExistingDataBuffers({BaseClass})
  \/ GetExistingDataBufferPairs({BaseClass})
  \/ ReloadDataBuffers({BaseClass})

SpecBuf == Init /\ [][NextBuf]_vars

\* A streaming session on one class: allocation, polls, reload and close.
NextStream ==
  \/ OpenUnitAnswered({OK}, {1})
  \/ CloseUnit
  \/ GetDataBuffer({BaseClass}, {1}, {"RAW"})
  \/ GetDataBuffers({BaseClass}, {1}, {"AGGREGATE"})
  \/ GetStreamingLatestValues
  \/ ReloadDataBuffers({BaseClass})

SpecStream == Init /\ [][NextStream]_vars

\* Registrations, clears and reloads with every answer of the driver.
NextErr ==
  \/ OpenUnitAnswered({OK}, {1})
  \/ SetDataBuffers(AgreeingPairs)
  \/ GetDataBuffer({OtherChannel}, {1}, {"RAW"})
  \/ GetDataBuffers({BaseClass}, {1}, {"AGGREGATE"})
  \/ ClearDataBuffers({BaseClass})
  \/ ReloadDataBuffers({BaseClass})

SpecErr == Init /\ [][NextErr]_vars

\* Block and streaming acquisitions started, stopped and queried.
NextAcq ==
  \/ OpenUnitAnswered({OK}, {1})
  \/ CloseUnit
  \/ RunBlockWith({})
  \/ RunStreaming
  \/ Stop
  \/ Acquisition
  \/ DevBlockReady

SpecAcq == Init /\ [][NextAcq]_vars

\* Block acquisitions with completion callbacks that the caller wraps,
\* drops and the runtime collects.
NextCallbacks ==
  \/ OpenUnitAnswered({OK}, {1})
  \/ CloseUnit
  \/ RunBlock
  \/ WrapBlockReady
  \/ DropCallback
  \/ Collect
  \/ DevBlockReady

SpecCallbacks == Init /\ [][NextCallbacks]_vars

\* A buffer alone, with a MIN buffer that agrees with it and with one of
\* another channel.
HandlePairs ==
  {p \in UserPairs :
     /\ p[1].downsampling_mode = "RAW"
     /\ p[2] # None =>
          /\ p[2][1].downsampling_mode = "RAW"
          /\ p[2][1].buffer = 2
          /\ buffer_class(p[2][1]) \in {BaseClass, OtherChannel}}

\* Every method that needs an open session, on sessions that reported a
\* valid handle, none or a failure.
NextHandle ==
  \/ OpenUnitAnswered({OK}, {-1, 0, 1})
  \/ CloseUnit
  \/ PassThrough
  \/ SetDataBuffers(HandlePairs)
  \/ GetDataBuffer({BaseClass}, {2}, {"RAW"})
  \/ GetDataBuffers({BaseClass}, {1}, {"RAW"})
  \/ ClearDataBuffers({BaseClass})
  \/ ReloadDataBuffers({BaseClass})
  \/ GetStreamingLatestValues
  \/ RunBlockWith({})
  \/ RunStreaming
  \/ Stop

SpecHandle == Init /\ [][NextHandle]_vars

\* Buffers of one class and role: two that differ in the downsampling mode,
\* and a third that differs from the first in its array only.
ThreadBuffers ==
  {b \in Buffer :
     /\ buffer_class(b) = BaseClass
     /\ b.max_min = "MAX"
     /\ b.buffer \in {1, 2}
     /\ b.buffer = 1 => b.downsampling_mode = "RAW"}

DistinctThreadBuffers ==
  {b \in ThreadBuffers : b.buffer = 2 => b.downsampling_mode = "AGGREGATE"}

\* Two threads in set_data_buffers, their steps interleaved freely.
NextThreads ==
  \/ OpenUnitAnswered({OK}, {1})
  \/ \E t \in Threads : ThreadCall(t, FALSE, DistinctThreadBuffers)
  \/ \E t \in Threads : ThreadClear(t)
  \/ \E t \in Threads : ThreadAdd(t)

SpecThreads == Init /\ [][NextThreads]_vars

\* Two threads in set_data_buffers, the calls serialized by the caller.
NextSerial ==
  \/ OpenUnitAnswered({OK}, {1})
  \/ \E t \in Threads : ThreadCall(t, TRUE, ThreadBuffers)
  \/ \E t \in Threads : ThreadClear(t)
  \/ \E t \in Threads : ThreadAdd(t)

SpecSerial == Init /\ [][NextSerial]_vars

\* As NextSerial, with buffers that differ in more than their arrays.
NextSerialDistinct ==
  \/ OpenUnitAnswered({OK}, {1})
  \/ \E t \in Threads : ThreadCall(t, TRUE, DistinctThreadBuffers)
  \/ \E t \in Threads : ThreadClear(t)
  \/ \E t \in Threads : ThreadAdd(t)

SpecSerialDistinct == Init /\ [][NextSerialDistinct]_vars

\* A stream polled by hand, with buffers of one or two samples.
NextWindows ==
  \/ raw_handle = None /\ OpenUnitAnswered({OK}, {1})
  \/ GetDataBuffer({BaseClass}, {1, 2}, {"RAW"})
  \/ RunStreaming
  \/ GetStreamingLatestValues
  \/ DevSampleUpTo(MaxSamples)

SpecWindows == Init /\ [][NextWindows]_vars

\* A stream into one buffer of two samples, polled by hand and reloaded.
NextFull ==
  \/ raw_handle = None /\ OpenUnitAnswered({OK}, {1})
  \/ GetDataBuffer({BaseClass}, {2}, {"RAW"})
  \/ RunStreaming
  \/ GetStreamingLatestValues
  \/ ReloadDataBuffers({BaseClass})
  \/ DevSample

SpecFull == Init /\ [][NextFull]_vars

\* The poll loop of the streaming example on a buffer of two samples.
NextLoop ==
  \/ raw_handle = None /\ OpenUnitAnswered({OK}, {1})
  \/ GetDataBuffer({BaseClass}, {2}, {"RAW"})
  \/ LoopStart
  \/ LoopPoll
  \/ LoopCopy
  \/ LoopRearm
  \/ DevSample

SpecLoop == Init /\ [][NextLoop]_vars

SpecPairs == Init /\ [][NextPairs]_vars

\* Registrations of agreeing pairs and allocations, on two classes.
NextReg ==
  \/ OpenUnitAnswered({OK}, {1})
  \/ SetDataBuffers(AgreeingPairs)
  \/ GetDataBuffer({OtherChannel}, {1}, {"RAW"})
  \/ GetDataBuffers({OtherChannel}, {1}, {"RAW"})
  \/ ClearDataBuffers({BaseClass, OtherChannel})

SpecReg == Init /\ [][NextReg]_vars

-----------------------------------------------------------------------------
(* Properties *)

\* The last driver call of the last method.
LastCall == calls[Len(calls)]

OpenRequests == {"open_unit", "open_unit_async", "open_unit_progress"}

\* C1: a method that received statuses from the driver raises exactly when the
\* last of them is not OK, then PicoStatusError carrying that very status;
\* every earlier status was OK.  WAITING_FOR_DATA_BUFFERS passes in
\* get_streaming_latest_values only.
C1_StatusTranslation ==
  calls # <<>> =>
    /\ \A i \in 1..(Len(calls) - 1) : calls[i].status = OK
    /\ LastCall.status = OK => last.exc.type = "none"
    /\ IF last.op = "get_streaming_latest_values"
            /\ LastCall.status = WAITING_FOR_DATA_BUFFERS
         THEN last.exc.type = "none"
         ELSE LastCall.status # OK =>
                last.exc = [type |-> "PicoStatusError", status |-> LastCall.status]

\* A method other than the poll raised for the buffer-full code.
C1_Witness ==
  /\ calls # <<>>
  /\ last.op # "get_streaming_latest_values"
  /\ LastCall.status = WAITING_FOR_DATA_BUFFERS
  /\ last.exc.type = "PicoStatusError"

\* C2: the poll returns full = TRUE exactly for WAITING_FOR_DATA_BUFFERS and
\* full = FALSE exactly for OK, without raising; for any other status it raises
\* PicoStatusError and returns nothing.
C2_StreamingFull ==
  (last.op = "get_streaming_latest_values" /\ calls # <<>>) =>
    IF LastCall.status = WAITING_FOR_DATA_BUFFERS
      THEN last.exc.type = "none" /\ last.ret.full = TRUE
    ELSE IF LastCall.status = OK
      THEN last.exc.type = "none" /\ last.ret.full = FALSE
    ELSE last.exc.type = "PicoStatusError" /\ last.ret = None

\* A poll answered with the buffer-full code returned full = TRUE.
C2_Witness ==
  /\ last.op = "get_streaming_latest_values"
  /\ calls # <<>>
  /\ LastCall.status = WAITING_FOR_DATA_BUFFERS
  /\ last.exc.type = "none"
  /\ last.ret.full = TRUE

\* C3: when a method that called the driver raises PicoStatusError or returns
\* normally, last_status is the status of the last driver call it made.
C3_LastStatusRecorded ==
  (calls # <<>> /\ last.exc.type \in {"none", "PicoStatusError"}) =>
    last_status = LastCall.status

\* C4: the handle property returns the stored handle exactly when it is
\* present and strictly positive; otherwise it raises PicoHandleError carrying
\* the stored value and telling never opened (absent), open failed (negative)
\* and no device (zero) apart; it changes neither raw_handle, last_status nor
\* the registry.
C4_HandleAccessor ==
  [][last'.op = "handle" =>
       /\ raw_handle' = raw_handle
       /\ last_status' = last_status
       /\ buffers' = buffers
       /\ IF raw_handle # None /\ raw_handle[1] > 0
            THEN last'.exc.type = "none" /\ last'.ret = [handle |-> raw_handle[1]]
            ELSE /\ last'.exc.type = "PicoHandleError"
                 /\ last'.exc.handle = raw_handle
                 /\ last'.exc.message =
                      IF raw_handle = None THEN "never_opened"
                      ELSE IF raw_handle[1] < 0 THEN "open_failed"
                      ELSE "no_device"]_vars

\* The handle was asked for while the stored handle was zero.
C4_Witness ==
  /\ last.op = "handle"
  /\ raw_handle = <<0>>
  /\ last.exc.type = "PicoHandleError"
  /\ last.exc.message = "no_device"

\* C5: the driver never receives an open request from a session object that
\* still holds a valid handle.
C5_CloseBeforeOpen ==
  \A i \in DOMAIN calls :
    calls[i].fn \in OpenRequests =>
      ~(calls[i].held # None /\ calls[i].held[1] > 0)

\* C6: close_unit returns normally exactly when the driver's close answered
\* OK, and then raw_handle is absent and a following handle access fails with
\* the never-opened case; when the close answers another status,
\* PicoStatusError is raised and raw_handle still holds the same valid handle.
C6_CloseClearsOnSuccess ==
  [][/\ last'.op = "close_unit" =>
          IF calls' # <<>> /\ calls'[1].status = OK
            THEN last'.exc.type = "none" /\ raw_handle' = None
            ELSE /\ last'.exc.type # "none"
                 /\ raw_handle' = raw_handle
                 /\ calls' # <<>> =>
                      /\ last'.exc.type = "PicoStatusError"
                      /\ raw_handle'[1] = calls'[1].handle
                      /\ raw_handle'[1] > 0
     /\ (last.op = "close_unit" /\ last.exc.type = "none" /\ last'.op = "handle") =>
          /\ last'.exc.type = "PicoHandleError"
          /\ last'.exc.message = "never_opened"]_vars

\* close_unit returned normally: the stored handle is absent.
C6_Witness ==
  /\ last.op = "close_unit"
  /\ last.exc.type = "none"
  /\ calls # <<>>
  /\ calls[1].status = OK
  /\ raw_handle = None

\* C7: at most one device session opened through this object is open.
C7_OneSessionOpen == Cardinality(device.open) <= 1

\* C8: when open_unit issued its open request, it returns True exactly when
\* the driver answered OK with a strictly positive handle, and then last_status
\* is OK and raw_handle is that handle; for OK with a zero or negative handle
\* it returns False and stores that handle; for another status it raises
\* PicoStatusError and raw_handle is what it was when the request was made.
C8_OpenUnitResult ==
  (last.op = "open_unit" /\ calls # <<>> /\ LastCall.fn = "open_unit") =>
    LET h == LastCall.data.handle IN
    /\ (last.ret = [bool |-> TRUE]) <=> (LastCall.status = OK /\ h > 0)
    /\ last.ret = [bool |-> TRUE] => (last_status = OK /\ raw_handle = <<h>>)
    /\ (LastCall.status = OK /\ h <= 0) =>
         (last.exc.type = "none" /\ last.ret = [bool |-> FALSE] /\ raw_handle = <<h>>)
    /\ LastCall.status # OK =>
         /\ last.exc = [type |-> "PicoStatusError", status |-> LastCall.status]
         /\ last.ret = None
         /\ raw_handle = LastCall.held

\* open_unit was answered OK with handle zero: it returned False, zero is stored.
C8_Witness ==
  /\ last.op = "open_unit"
  /\ calls # <<>>
  /\ LastCall.status = OK
  /\ LastCall.data.handle = 0
  /\ last.ret = [bool |-> FALSE]
  /\ raw_handle = <<0>>

\* The buffer is a member of some set of the registry.
Visible(bufs, b) == \E k \in DOMAIN bufs : SetIn(bufs[k], b)

\* The pair differs in class or in downsampling mode.
DiffersInKind(a) ==
  \/ buffer_class(a.buffer_min[1]) # buffer_class(a.buffer_max)
  \/ a.buffer_min[1].downsampling_mode # a.buffer_max.downsampling_mode

\* buffer_min is given and differs from buffer_max in class, mode or length.
Mismatched(a) ==
  /\ a.buffer_min # None
  /\ \/ DiffersInKind(a)
     \/ samples(a.buffer_min[1]) # samples(a.buffer_max)

C10_Registered ==
  [][(last'.op = "set_data_buffers" /\ last'.exc.type = "none") =>
       LET a == last'.args
           c == buffer_class(a.buffer_max)
       IN  /\ c \in DOMAIN buffers'
           /\ SetIn(buffers'[c], a.buffer_max)
           /\ a.buffer_min # None => SetIn(buffers'[c], a.buffer_min[1])
           /\ Len(calls') = 1
           /\ calls'[1].fn = "set_data_buffers"
           /\ calls'[1].data.buffer_max = <<a.buffer_max.buffer>>
           /\ calls'[1].data.buffer_min =
                IF a.buffer_min = None THEN None ELSE <<a.buffer_min[1].buffer>>
           /\ calls'[1].data.action =
                IF a.clear_others THEN ADD \cup CLEAR_ALL ELSE ADD
           /\ a.clear_others =>
                buffers'[c] \subseteq
                  {a.buffer_max} \cup
                    (IF a.buffer_min = None THEN {} ELSE {a.buffer_min[1]})
           /\ \A k \in (DOMAIN buffers \cup DOMAIN buffers') \ {c} :
                /\ k \in DOMAIN buffers <=> k \in DOMAIN buffers'
                /\ BufferSet(buffers', k) = BufferSet(buffers, k)]_vars

\* A pair was registered with clear_others while another class held a buffer.
C10_Witness ==
  /\ last.op = "set_data_buffers"
  /\ last.exc.type = "none"
  /\ last.args.clear_others
  /\ last.args.buffer_min # None
  /\ buffers[BaseClass] = {last.args.buffer_max, last.args.buffer_min[1]}
  /\ \E k \in DOMAIN buffers : k # BaseClass /\ buffers[k] # {}

\* C11: every array the driver holds the address of (given with ADD in a
\* request answered OK, its class not cleared since and its session not
\* closed) is the array of a Buffer in the registry set of its class.
C11_ArraysKeptAlive ==
  \A e \in device.registered :
    \E b \in BufferSet(buffers, e.class) : b.buffer = e.array

\* C12: every MIN buffer in the registry has, in the set of its class, a MAX
\* buffer of the same downsampling mode and the same length, and every
\* buffer stored under a class key has the channel, datatype and segment of
\* that key.
C12_MinHasMax ==
  \A k \in DOMAIN buffers : \A b \in buffers[k] :
    /\ buffer_class(b) = k
    /\ b.max_min = "MIN" =>
         \E m \in buffers[k] :
           /\ m.max_min = "MAX"
           /\ m.downsampling_mode = b.downsampling_mode
           /\ samples(m) = samples(b)

\* The request of a clear and its effect on the registry: one CLEAR_ALL
\* request without buffers for the class, the set of the class empty, the
\* set of every other class as before.
ClearFrame(c, before, after, cs) ==
  /\ Len(cs) = 1
  /\ cs[1].fn = "set_data_buffers"
  /\ cs[1].data.action = CLEAR_ALL
  /\ cs[1].data.buffer_max = None
  /\ cs[1].data.buffer_min = None
  /\ DevClass(cs[1]) = c
  /\ BufferSet(after, c) = {}
  /\ \A k \in (DOMAIN before \cup DOMAIN after) \ {c} :
       BufferSet(after, k) = BufferSet(before, k)

\* Every query for class c on the object self gives the empty set.
QueriesEmpty(self, c) ==
  /\ get_existing_data_buffers(self, c.channel, c.datatype,
                                c.segment).ret.buffers = {}
  /\ LET q == get_all_existing_data_buffers(self.buffers, <<c.channel>>,
                                             <<c.datatype>>, <<c.segment>>)
     IN  q.exc.type = "none" /\ q.ret = {}
  /\ \A slot0 \in slot0_choices(self.buffers) :
       get_existing_data_buffer_pairs(self, c.channel, c.datatype, c.segment,
                                      slot0).ret.pairs = {}

\* C13: a clear_data_buffers(c) that returns normally has sent one CLEAR_ALL
\* request without buffers for exactly c, leaves the registry set of c empty
\* and that of every other class as it was, and afterwards every query for
\* c gives the empty set.
C13_ClearEmptiesClass ==
  [][(last'.op = "clear_data_buffers" /\ last'.exc.type = "none") =>
       /\ ClearFrame(last'.args, buffers, buffers', calls')
       /\ QueriesEmpty([raw_handle |-> raw_handle',
                        last_status |-> last_status',
                        buffers |-> buffers'], last'.args)]_vars

\* The part of C13 on the request and the registry sets alone.
ClearFrameKept ==
  [][(last'.op = "clear_data_buffers" /\ last'.exc.type = "none") =>
       ClearFrame(last'.args, buffers, buffers', calls')]_vars

\* The buffer has the attribute of every filter that is given.
Matches(b, f) ==
  /\ f.channel # None => b.channel = f.channel[1]
  /\ f.data_type # None => b.datatype = f.data_type[1]
  /\ f.segment # None => b.segment = f.segment[1]

\* C14: get_all_existing_data_buffers returns normally, for every registry
\* and every combination of filters, and returns exactly the registered
\* buffers that have the attribute of every given filter.
C14_QueryFilters ==
  last.op = "get_all_existing_data_buffers" =>
    /\ last.exc.type = "none"
    /\ last.ret = [buffers |-> {b \in all_buffers(buffers) : Matches(b, last.args)}]

\* The MIN buffers of set S with the downsampling mode of buffer m.
MinsOf(S, m) ==
  {b \in S : b.max_min = "MIN" /\ b.downsampling_mode = m.downsampling_mode}

\* C15: every registered MAX buffer of the requested class is the first
\* element of exactly one tuple returned by get_existing_data_buffer_pairs,
\* and the second element of that tuple is absent when no MIN buffer of its
\* downsampling mode is registered.
C15_PairsKeepMax ==
  last.op = "get_existing_data_buffer_pairs" =>
    \A m \in BufferSet(buffers, last.args) :
      m.max_min = "MAX" =>
        /\ Cardinality({t \in last.ret.pairs : t.buffer_max = <<m>>}) = 1
        /\ MinsOf(BufferSet(buffers, last.args), m) = {} =>
             \A t \in last.ret.pairs :
               t.buffer_max = <<m>> => t.buffer_min = None

\* C16: get_existing_data_buffer_pairs returns one tuple for each
\* downsampling mode registered in the requested class and nothing of
\* another class; the first element of a tuple is the MAX buffer of the
\* mode, never a MIN buffer, and the second is the MIN buffer of that mode
\* when one is registered.
C16_PairsOfClass ==
  last.op = "get_existing_data_buffer_pairs" =>
    LET S == BufferSet(buffers, last.args)
        pairs == last.ret.pairs
    IN  /\ \A t \in pairs :
             /\ t.buffer_max[1] \in S
             /\ t.buffer_max[1].max_min = "MAX"
             /\ t.buffer_min =
                  IF MinsOf(S, t.buffer_max[1]) = {} THEN None
                  ELSE <<CHOOSE b \in MinsOf(S, t.buffer_max[1]) : TRUE>>
        /\ \A mode \in {b.downsampling_mode : b \in S} :
             Cardinality({t \in pairs :
                            t.buffer_max[1].downsampling_mode = mode}) = 1

\* The arrays given to the driver as max or min buffer in the calls cs.
ArraysGiven(cs) ==
  UNION {{cs[i].data.buffer_max[j] : j \in DOMAIN cs[i].data.buffer_max}
           \cup {cs[i].data.buffer_min[j] : j \in DOMAIN cs[i].data.buffer_min} :
         i \in DOMAIN cs}

\* C17: a reload_data_buffers that returns normally has given the driver,
\* in requests with action ADD, the array of every buffer registered in the
\* requested class, each MAX buffer with the MIN buffer of its mode, and no
\* array of another class, and returns the registry set of the class.
C17_ReloadOfClass ==
  (last.op = "reload_data_buffers" /\ last.exc.type = "none") =>
    LET S == BufferSet(buffers, last.args) IN
    /\ ArraysGiven(calls) = {b.buffer : b \in S}
    /\ \A i \in DOMAIN calls :
         /\ calls[i].fn = "set_data_buffers"
         /\ calls[i].data.action = ADD
         /\ DevClass(calls[i]) = last.args
         /\ \E m \in S :
              /\ m.max_min = "MAX"
              /\ calls[i].data.buffer_max = <<m.buffer>>
              /\ calls[i].data.down_sample_ratio_mode = m.downsampling_mode
              /\ calls[i].data.buffer_min =
                   IF MinsOf(S, m) = {} THEN None
                   ELSE <<(CHOOSE b \in MinsOf(S, m) : TRUE).buffer>>
    /\ last.ret = [buffers |-> S]

\* The methods that register or clear buffers.
RegistryWriters ==
  {"set_data_buffers", "get_data_buffer", "get_data_buffers",
   "clear_data_buffers"}

\* C18: the registry, its class keys and the set of each class, changes
\* only in a step of set_data_buffers, get_data_buffer, get_data_buffers or
\* clear_data_buffers; queries, reload and every other method leave it as it
\* is, also for a class that was never registered.
C18_RegistryFrame ==
  [][buffers' # buffers => last'.op \in RegistryWriters]_vars

\* C19: after close_unit has returned normally the registry holds no
\* buffer: every class set is empty and total_existing_data_buffers is 0.
C19_CloseDropsBuffers ==
  (last.op = "close_unit" /\ last.exc.type = "none") =>
    /\ all_buffers(buffers) = {}
    /\ total_existing_data_buffers(buffers) = 0

\* The methods that give buffers to the driver, or end the session.
Rearming ==
  {"set_data_buffers", "get_data_buffer", "get_data_buffers",
   "reload_data_buffers", "close_unit", "open_unit", "open_unit_progress"}

\* C20: a get_streaming_latest_values that reaches the driver makes one
\* driver call, the poll, and no set_data_buffers request, whether the poll
\* reports full or not; a session the driver reported full for stays
\* without buffers until a registration, a reload or the close of it.
C20_PollDoesNotRearm ==
  [][/\ last'.op = "get_streaming_latest_values" =>
          /\ \A i \in DOMAIN calls' : calls'[i].fn = "get_streaming_latest_values"
          /\ Len(calls') <= 1
          /\ last'.exc.type \in {"none", "PicoStatusError"} => Len(calls') = 1
          /\ device'.registered = device.registered
          /\ (last'.exc.type = "none" /\ last'.ret.full) =>
               raw_handle'[1] \in device'.waiting
     /\ device.waiting \ device'.waiting # {} => last'.op \in Rearming]_vars

\* A poll reported full while buffers were registered.
C20_Witness ==
  /\ last.op = "get_streaming_latest_values"
  /\ last.exc.type = "none"
  /\ last.ret.full
  /\ Len(calls) = 1
  /\ total_existing_data_buffers(buffers) > 0
  /\ device.waiting # {}

\* The methods that send registration or clear requests.
Registering ==
  {"set_data_buffers", "get_data_buffer", "get_data_buffers",
   "clear_data_buffers", "reload_data_buffers"}

\* C28: when the driver answers a request of set_data_buffers,
\* get_data_buffer, get_data_buffers, clear_data_buffers or
\* reload_data_buffers with a status that is not OK, the method raises
\* PicoStatusError with that status, the request is the last one it sent,
\* and the registry is exactly as before the call.
C28_FailedRequestKeepsRegistry ==
  [][(last'.op \in Registering) =>
       \A i \in DOMAIN calls' :
         calls'[i].status # OK =>
           /\ i = Len(calls')
           /\ last'.exc = PicoStatusError(calls'[i].status)
           /\ last'.ret = None
           /\ buffers' = buffers]_vars

\* The second request of a reload was refused.
C28_Witness ==
  /\ last.op = "reload_data_buffers"
  /\ Len(calls) = 2
  /\ calls[1].status = OK
  /\ calls[2].status # OK
  /\ last.exc.type = "PicoStatusError"

\* The (channel, downsampling mode, datatype) classes the registry holds at
\* segment 0.
PollClasses ==
  {empty_streaming_info(b) : b \in {x \in all_buffers(buffers) : x.segment = 0}}

\* C30: a poll without explicit input submits exactly one entry per
\* (channel, datatype, downsampling mode) class registered at segment 0,
\* and returns exactly one window per such class, also when a class holds
\* both a MAX and a MIN buffer.
C30_PollEntriesPerClass ==
  (/\ last.op = "get_streaming_latest_values"
   /\ last.args = None
   /\ Len(calls) = 1)
  => LET info == calls[1].data.streaming_data_info IN
     /\ {info[i] : i \in DOMAIN info} = PollClasses
     /\ Len(info) = Cardinality(PollClasses)
     /\ last.exc.type = "none" =>
          Len(last.ret.streaming_info_array) = Cardinality(PollClasses)

\* C24: wrapping the same callback object any number of times returns the
\* identical trampoline and creates only one; distinct callback objects
\* get distinct trampolines, each invoking its own callback; run_block
\* passes the driver that trampoline.
C24_WrapIdempotent ==
  /\ \A t1, t2 \in DOMAIN env.target :
       env.target[t1] = env.target[t2] => t1 = t2
  /\ \A cb \in Callbacks :
       env.holder[cb] # None =>
         /\ env.holder[cb][1] \in DOMAIN env.target
         /\ env.target[env.holder[cb][1]] = cb
  /\ last.op = "wrap_block_ready" =>
       /\ last.ret.trampoline \in DOMAIN env.target
       /\ env.target[last.ret.trampoline] = last.args.callback
  /\ (last.op = "run_block" /\ last.args.ready # None /\ calls # <<>>) =>
       /\ calls[1].data.cb_ready # None
       /\ calls[1].data.cb_ready[1] \in DOMAIN env.target
       /\ env.target[calls[1].data.cb_ready[1]] = last.args.ready[1]

\* A callback that run_block had wrapped is wrapped again while the driver
\* holds its trampoline, and the other callback was wrapped too.
C24_Witness ==
  /\ last.op = "wrap_block_ready"
  /\ Len(env.target) = 2
  /\ \E i \in DOMAIN device.acquiring :
       device.acquiring[i].callback = <<last.ret.trampoline>>

\* C25: the trampoline of every block acquisition the driver has not yet
\* completed is alive, whatever the caller did with the callback since;
\* a run_block without callback passes no trampoline.
C25_TrampolineKeptAlive ==
  /\ \A i \in DOMAIN device.acquiring :
       device.acquiring[i].callback # None =>
         TrampolineAlive(env, device.acquiring[i].callback[1])
  /\ (last.op = "run_block" /\ last.args.ready = None /\ calls # <<>>) =>
       calls[1].data.cb_ready = None

\* C26: no session has more than one acquisition started and not stopped.
C26_OneAcquisition ==
  \A h \in HandleValues :
    Cardinality({i \in DOMAIN device.acquiring :
                   device.acquiring[i].handle = h}) <= 1

\* The methods that need an open session.
NeedSession ==
  {"close_unit", "get_streaming_latest_values", "run_block", "run_streaming",
   "stop"} \cup PassThroughOps \cup AcquisitionOps \cup Registering

\* The call just made ended in PicoHandleError without a driver call and
\* changed nothing.
RefusedForHandle ==
  /\ last'.exc = PicoHandleError(raw_handle)
  /\ calls' = <<>>
  /\ raw_handle' = raw_handle
  /\ last_status' = last_status
  /\ buffers' = buffers

\* A close_unit that follows a close_unit that succeeded fails as on an
\* object that was never opened.
SecondClose ==
  (last.op = "close_unit" /\ last.exc.type = "none"
     /\ last'.op = "close_unit")
  => last'.exc = PicoHandleError(None)

\* C29 as stated: every method that needs an open session, called while the
\* stored handle is absent, zero or negative, raises PicoHandleError, makes
\* no driver call and leaves raw_handle, last_status and the registry as
\* they were; a second close_unit fails with the never-opened case.
C29_InvalidHandleRefusedAsStated ==
  [][/\ (last'.op \in NeedSession /\ ~handle_held(raw_handle))
         => RefusedForHandle
     /\ SecondClose]_vars

\* set_data_buffers was called with a buffer_min of another class or
\* downsampling mode than buffer_max.
IncompatiblePair ==
  /\ last'.op = "set_data_buffers"
  /\ incompatible(last'.args.buffer_max, last'.args.buffer_min)

\* C29: as stated, except that set_data_buffers with a buffer_min of another
\* class or downsampling mode raises ValueError; it too makes no driver call
\* and changes nothing.
C29_InvalidHandleRefused ==
  [][/\ (last'.op \in NeedSession /\ ~handle_held(raw_handle))
         => IF IncompatiblePair
              THEN /\ last'.exc = [type |-> "ValueError"]
                   /\ calls' = <<>>
                   /\ raw_handle' = raw_handle
                   /\ last_status' = last_status
                   /\ buffers' = buffers
              ELSE RefusedForHandle
     /\ SecondClose]_vars

\* A close after a successful close, with buffers still in the registry.
C29_Witness ==
  /\ last.op = "close_unit"
  /\ last.exc = PicoHandleError(None)
  /\ last_status = OK
  /\ total_existing_data_buffers(buffers) > 0

\* No thread is inside set_data_buffers.
Quiescent == \A t \in Threads : env.threads[t].pc = "idle"

\* Every array the driver holds is the array of a buffer in the registry.
HeldAreRegistered ==
  \A e \in device.registered :
    \E b \in BufferSet(buffers, e.class) : b.buffer = e.array

\* C27, the serialized half: when the calls of the two threads to
\* set_data_buffers are serialized, no state is reachable between calls in
\* which a buffer the driver still holds is missing from the registry.
C27_SerializedKeepsRegistry == Quiescent => HeldAreRegistered

\* C27, the unserialized half: both threads have returned and a buffer the
\* driver holds is missing from the registry.
C27_LostByInterleaving == Quiescent /\ ~HeldAreRegistered

\* The buffers of the registry that the entry sdi of a poll stands for.
BuffersOf(sdi) ==
  {b \in all_buffers(buffers) :
     /\ b.channel = sdi.channel
     /\ b.datatype = sdi.type
     /\ b.downsampling_mode = sdi.mode
     /\ b.segment = 0}

\* C21: every window returned by get_streaming_latest_values satisfies
\* 0 <= start_index and start_index + no_of_samples <= the length of the
\* registered buffer of the window's class.
C21_WindowWithinBuffer ==
  (last.op = "get_streaming_latest_values" /\ last.exc.type = "none") =>
    \A i \in DOMAIN last.ret.streaming_info_array :
      LET sdi == last.ret.streaming_info_array[i] IN
      \A b \in BuffersOf(sdi) :
        /\ 0 <= sdi.start_index
        /\ sdi.start_index + sdi.no_of_samples <= samples(b)

\* One buffer is registered, and its array is the one array the driver
\* holds.
OneBuffer ==
  /\ Cardinality(all_buffers(buffers)) = 1
  /\ {e.array : e \in device.registered} = RegisteredArrays(buffers)

\* A poll of a streaming session has just reported full.
FullPoll ==
  /\ last'.op = "get_streaming_latest_values"
  /\ last'.exc.type = "none"
  /\ last'.ret.full
  /\ device.stream.on
  /\ OneBuffer

\* The call that follows a poll which reported full is a reload.
ReloadAfterFull ==
  /\ last.op = "get_streaming_latest_values"
  /\ last.exc.type = "none"
  /\ last.ret.full
  /\ device.stream.on
  /\ OneBuffer
  /\ last'.op = "reload_data_buffers"

\* C22 as stated: with one registered buffer of N samples, the window of
\* every poll that reports full has start_index 0 and N samples, and a
\* reload made right after that poll does not raise.
C22_FullWindowAsStated ==
  [][/\ FullPoll =>
          \A i \in DOMAIN last'.ret.streaming_info_array :
            LET sdi == last'.ret.streaming_info_array[i] IN
            \A b \in all_buffers(buffers) :
              sdi.start_index = 0 /\ sdi.no_of_samples = samples(b)
     /\ ReloadAfterFull => last'.exc.type = "none"]_vars

\* C22: with one registered buffer of N samples, the window of every poll
\* that reports full starts where the window of the poll before ended (at 0
\* when no window was reported since the buffer was registered) and ends at
\* N, and a reload made right after that poll does not raise unless the
\* driver answers its request with a status that is not OK.
C22_FullWindow ==
  [][/\ FullPoll =>
          \A i \in DOMAIN last'.ret.streaming_info_array :
            LET sdi == last'.ret.streaming_info_array[i] IN
            \A b \in all_buffers(buffers) :
              /\ sdi.start_index = device.stream.reported
              /\ sdi.start_index + sdi.no_of_samples = samples(b)
     /\ ReloadAfterFull =>
          IF \A i \in DOMAIN calls' : calls'[i].status = OK
            THEN last'.exc.type = "none" /\ calls' # <<>>
            ELSE last'.exc.type = "PicoStatusError"]_vars

\* A poll reported full with a window that starts after samples reported
\* before.
C22_Witness ==
  /\ last.op = "get_streaming_latest_values"
  /\ last.exc.type = "none"
  /\ last.ret.full
  /\ device.stream.on
  /\ OneBuffer
  /\ last.ret.streaming_info_array[1].start_index = 1
  /\ last.ret.streaming_info_array[1].no_of_samples = 1

\* The samples 1, ..., n in order.
Stream(n) == [i \in 1..n |-> i]

\* C23: in a streaming run in which the caller copies each reported window
\* before the next poll and re-registers the buffer on every full signal,
\* the copied windows put together are the samples of the driver in order,
\* none lost and none twice, and after each copy they are all the samples
\* the driver has reported.
C23_NoLossNoDuplicate ==
  /\ env.loop.result = Stream(Len(env.loop.result))
  /\ env.loop.pc \in {"poll", "rearm"} =>
       Len(env.loop.result)
         = device.stream.sent
             - (device.stream.written - device.stream.reported)

\* The loop has copied three samples out of a buffer of two.
C23_Witness ==
  /\ env.loop.pc = "poll"
  /\ env.loop.result = Stream(3)

====
